---- MODULE Spec2Model ----
(***************************************************************************)
(* A model of the lyrics resolution pipeline of src/src/utils.cpp: the     *)
(* on-disk cache, the metadata reader, the script provider, the scrape      *)
(* provider with its title-truncation retry and document fetch, the         *)
(* orchestrator update_lyrics and the remove-from-cache action.             *)
(*                                                                         *)
(* Texts (artist, title, lyrics, paths, documents) are sequences of         *)
(* one-character strings, or of markup tokens for a fetched document.       *)
(*                                                                         *)
(* Assumptions: the host does not edit a track's metadata while the track   *)
(* is being resolved (update_lyrics keeps the artist and title pointers     *)
(* past the end of the lock scope of lines 259-263); a file that could be   *)
(* opened for writing is written in full; remove() of an existing cache     *)
(* file succeeds; a directory exists only inside a directory that exists,   *)
(* and mkdir fails only where the directory exists, its parent is missing   *)
(* or permission is denied; pl_lock_guard (utils.h) locks when it is        *)
(* declared and unlocks when its block is left.                             *)
(***************************************************************************)
EXTENDS Integers, Sequences, FiniteSets, TLC

VARIABLES
    pc,         \* position of the resolution thread in update_lyrics
    track,      \* the track being resolved: [lyrics, artist, title]
    runs,       \* number of resolutions started so far
    published,  \* texts handed to set_lyrics by the current run, in order
    consulted,  \* sources the current run has asked, in order
    hit,        \* the source that produced the current run's lyrics
    pi,         \* index in providers of the provider being tried
    cache,      \* the cache directory: path -> file content or NoFile
    cacheAtStart, \* the cache directory when the current run started
    saves,      \* save_cached_lyrics calls of the current run
    cacheLoad,  \* the last load_cached_lyrics call: [artist, title, result]
    savedPairs, \* (artist, title) pairs saved with success so far
    lastSave,   \* path -> last successful save since the last removal
    scriptCall, \* the last get_lyrics_from_script call: [env, result, spawned]
    provResult, \* what the provider that was just called returned
    sTitle,     \* the working title of the scrape retry loop
    sArtist,    \* the normalized artist of the scrape provider
    attempts,   \* fetches of the current scrape call: [url, resp, out]
    sDoc,       \* the document the scrape provider fetched
    action,     \* the last remove_from_cache_action call
    kq,         \* the last pair of cached_filename queries
    dirs,       \* the directories that exist, of those lyrics_dir names
    ensured,    \* the last ensure_lyrics_path_exists call
    direct,     \* the provider in progress was called by the host itself
    lock,       \* how many times the thread holds the metadata lock
    racy,       \* a metadata lookup has run without the metadata lock
    file,       \* the cache file two concurrent saves write: its bytes
    wr          \* the concurrent saves: [pc, text, off, ok] of each

vars == <<pc, track, runs, published, consulted, hit, pi, cache, cacheAtStart,
          saves, cacheLoad, savedPairs, lastSave, scriptCall, provResult,
          sTitle, sArtist, attempts, sDoc, action, kq, dirs, ensured, direct,
          lock, racy, file, wr>>

-----------------------------------------------------------------------------
(* Bounds of the model. *)

\* characters the stream of a save hands to one write of the file
StreamBuf == 2

\* resolutions (update_lyrics runs) in one behaviour
MaxRuns == 2
\* tracks of the playlist a remove_from_cache_action call walks
MaxPlaylist == 2

-----------------------------------------------------------------------------
(* Values. *)

\* An optional value is a sequence of length 0 (the empty option, a null
\* pointer, an absent file) or 1.
None == <<>>
Some(x) == <<x>>
IsSome(o) == Len(o) > 0
Val(o) == o[1]

Loading == <<"Loading...">>
NotFound == <<"Lyrics not found">>

Min(a, b) == IF a < b THEN a ELSE b

\* the texts of the model's tracks
Artists == { <<"A", "/", "b">>, <<"A", "_", "b">> }
Titles == { <<"S">>, <<"S", " ", "(", "R", ")">>, <<"T", "[", "x", "]">> }
MetaLyrics == <<"m", "\n">>

Tracks ==
    [lyrics : {None, Some(MetaLyrics)},
     artist : {None} \cup {Some(a) : a \in Artists},
     title  : {None} \cup {Some(t) : t \in Titles}]

NoTrack == [lyrics |-> None, artist |-> None, title |-> None]

-----------------------------------------------------------------------------
(* Text helpers. *)

MapSeq(s, F(_)) == [i \in 1..Len(s) |-> F(s[i])]

RECURSIVE Flatten(_)
Flatten(ss) == IF ss = <<>> THEN <<>> ELSE Head(ss) \o Flatten(Tail(ss))

UpperChars == {"A", "B", "R", "S", "T", "X"}
LowerChars == {"a", "b", "c", "r", "s", "t", "x"}
DigitChars == {"0", "1"}

\* Glib::ustring::lowercase on one character
ToLower(c) ==
    CASE c = "A" -> "a" [] c = "B" -> "b" [] c = "R" -> "r"
      [] c = "S" -> "s" [] c = "T" -> "t" [] c = "X" -> "x"
      [] OTHER -> c

lowercase(s) == MapSeq(s, ToLower)

g_unichar_isalpha(c) == c \in UpperChars \cup LowerChars
g_unichar_isdigit(c) == c \in DigitChars

IsAlnum(c) == g_unichar_isalpha(c) \/ g_unichar_isdigit(c)

\* keeps the alphabetic and digit characters, in order
RECURSIVE alphadigitize(_)
alphadigitize(s) ==
    IF s = <<>> THEN <<>>
    ELSE IF IsAlnum(Head(s)) THEN <<Head(s)>> \o alphadigitize(Tail(s))
         ELSE alphadigitize(Tail(s))

\* g_uri_escape_string with no reserved characters allowed: unreserved
\* characters are kept, every other one becomes a percent escape
UriUnreserved(c) == IsAlnum(c) \/ c \in {"-", ".", "_", "~"}
EscapeChar(c) == IF UriUnreserved(c) THEN <<c>> ELSE <<"%" \o c>>
uri_escape_string(s) == Flatten(MapSeq(s, EscapeChar))

\* ustring::compose(AZL_FMT, %1, %2)
AZL_FMT(a, t) ==
    <<"https://www.azlyrics.com/lyrics/">> \o a \o <<"/">> \o t \o <<".html">>

-----------------------------------------------------------------------------
(* The cache store. *)

lyrics_dir == <<"$CACHE/deadbeef/lyrics/">>

\* std::replace(s.begin(), s.end(), '/', '_')
ReplaceSlash(s) == [i \in 1..Len(s) |-> IF s[i] = "/" THEN "_" ELSE s[i]]

\* a cached_filename that forgets to replace the slashes of the title
cached_filename_raw_title(artist, title) ==
    lyrics_dir \o ReplaceSlash(artist) \o <<"-">> \o title

cached_filename(artist, title) ==
    lyrics_dir \o ReplaceSlash(artist) \o <<"-">> \o ReplaceSlash(title)

\* the paths the tracks of the model can name
CachePaths == { cached_filename(a, t) : a \in Artists, t \in Titles }

FileAt(c, path) == IF path \in DOMAIN c THEN c[path] ELSE None

\* access(path, F_OK) == 0 behind the null checks
is_cached(c, artist, title) ==
    /\ IsSome(artist)
    /\ IsSome(title)
    /\ IsSome(FileAt(c, cached_filename(Val(artist), Val(title))))

\* file_get_contents, a FileError caught: the content or the empty option
load_cached_lyrics(c, artist, title) ==
    FileAt(c, cached_filename(artist, title))

\* a save that ends the text with a line break (t << lyrics << endl)
save_cached_lyrics_endl(c, artist, title, lyrics, openOk) ==
    IF ~openOk
    THEN [ok |-> FALSE, cache |-> c]
    ELSE [ok |-> TRUE,
          cache |-> [c EXCEPT ![cached_filename(artist, title)] =
                                  Some(Append(lyrics, "\n"))]]

\* ofstream t(filename); if (!t) return false; t << lyrics; return true
\* openOk: whether the file could be opened for writing
save_cached_lyrics(c, artist, title, lyrics, openOk) ==
    IF ~openOk
    THEN [ok |-> FALSE, cache |-> c]
    ELSE [ok |-> TRUE,
          cache |-> [c EXCEPT ![cached_filename(artist, title)] = Some(lyrics)]]

\* remove(path)
RemoveFile(c, path) == [c EXCEPT ![path] = None]

-----------------------------------------------------------------------------
(* The metadata reader. *)

\* pl_find_meta of "unsynced lyrics", "UNSYNCEDLYRICS", "lyrics": the first
\* field present, unmodified
get_lyrics_from_metadata(t) == t.lyrics

-----------------------------------------------------------------------------
(* The script provider. *)

ScriptLyrics == <<"s", "\n">>

\* What the host and the child process answer to one call:
\*   template   the configured "lyricbar.customcmd" (empty when unset)
\*   compileOk  tf_compile returned a program
\*   evalLen    what tf_eval returned
\*   spawnOk    spawn_command_line_sync did not raise a Glib::Error
\*   output, exit   the child's standard output and exit status
\*   valid      the output is valid UTF-8
ScriptEnvs ==
    [template : {<<>>, <<"c", "m", "d">>},
     compileOk : BOOLEAN,
     evalLen : {-1, 3},
     spawnOk : BOOLEAN,
     output : {<<>>, ScriptLyrics},
     exit : {0, 1},
     valid : BOOLEAN]

\* a provider that takes the output of a child that failed
get_lyrics_from_script_any_exit(env) ==
    IF env.template = <<>> THEN [result |-> None, spawned |-> 0]
    ELSE IF ~env.compileOk THEN [result |-> None, spawned |-> 0]
    ELSE IF env.evalLen < 0 THEN [result |-> None, spawned |-> 0]
    ELSE IF ~env.spawnOk THEN [result |-> None, spawned |-> 0]
    ELSE IF env.output = <<>> THEN [result |-> None, spawned |-> 1]
    ELSE IF ~env.valid THEN [result |-> None, spawned |-> 1]
    ELSE [result |-> Some(env.output), spawned |-> 1]

\* result: the option returned; spawned: child processes started
get_lyrics_from_script(env) ==
    IF env.template = <<>> THEN [result |-> None, spawned |-> 0]
    ELSE IF ~env.compileOk THEN [result |-> None, spawned |-> 0]
    ELSE IF env.evalLen < 0 THEN [result |-> None, spawned |-> 0]
    ELSE IF ~env.spawnOk THEN [result |-> None, spawned |-> 0]
    ELSE IF env.output = <<>> \/ env.exit # 0
         THEN [result |-> None, spawned |-> 1]
    ELSE IF ~env.valid THEN [result |-> None, spawned |-> 1]
    ELSE [result |-> Some(env.output), spawned |-> 1]

-----------------------------------------------------------------------------
(* The document fetch. *)

\* std::array<char, 4096> buf
BUF_SIZE == 4096
\* size_t{1} << 20U
MAX_FILE_SIZE == 1048576

\* documents, as sequences of characters and markup tokens
DocLyrics ==
    <<"<div>", "<!--U-->", "\n", "a", "<br>", "\n", "b", "&quot;", " ", "</div>">>
DocNoMarker == <<"<html>", "a", "</div>">>
DocEmpty == <<"<div>", " ", "<!--U-->", " ", "<br>", "\n", "</div>">>
DocTwoNewlines ==
    <<"<div>", "<!--U-->", "a", "\n", "\n", "<i>", "</i>", "</div>">>
Docs == {DocLyrics, DocNoMarker, DocEmpty, DocTwoNewlines}

\* body lengths around the buffer size and the size cap
BodyLens == {0, BUF_SIZE + 904, MAX_FILE_SIZE, MAX_FILE_SIZE + 1}

\* What the server and the transport answer to one GET:
\*   stream  soup_session_send returned a stream
\*   status  msg->status_code
\*   len     bytes the stream delivers before it ends
\*   end     how the stream ends: "eof" (a read of 0) or "error" (a read of -1)
\*   body    the delivered bytes, as a document
Responses ==
    {[stream |-> FALSE, status |-> 0, len |-> 0, end |-> "error", body |-> <<>>]}
    \cup [stream : {TRUE}, status : {404}, len : {0, MAX_FILE_SIZE + 1},
          end : {"eof"}, body : {DocLyrics}]
    \cup [stream : {TRUE}, status : {200}, len : BodyLens,
          end : {"eof", "error"}, body : Docs]

FetchNone == [kind |-> "none", size |-> 0, body |-> <<>>]
FetchThrow == [kind |-> "throw", size |-> 0, body |-> <<>>]
FetchAbort == [kind |-> "abort", size |-> 0, body |-> <<>>]
FetchDoc(n, b) == [kind |-> "doc", size |-> n, body |-> b]

\* The while (true) loop reads the stream a buffer at a time. Read k (from
\* 1) finds ResBefore(k) bytes in res and returns NBytes(len, k) > 0; the
\* read after the last of them returns 0 at the end of the stream and -1 on
\* a read error.
Reads(len) == (len + BUF_SIZE - 1) \div BUF_SIZE
ResBefore(k) == (k - 1) * BUF_SIZE
NBytes(len, k) == Min(BUF_SIZE, len - ResBefore(k))

\* g_input_stream_read after every byte was delivered
LastRead(end) == IF end = "eof" THEN 0 ELSE -1

\* a size check that already refuses a body of exactly the cap
TooLarge_inclusive(res, nbytes) == res + nbytes >= MAX_FILE_SIZE

\* if (res.size() + nbytes > MAX_FILE_SIZE)
TooLarge(res, nbytes) == res + nbytes > MAX_FILE_SIZE

\* The loop: the first read that exceeds the cap throws; otherwise every
\* byte is appended and the last read ends the loop. With assertions
\* compiled in, a read error aborts the process; with NDEBUG the bytes read
\* so far are returned.
ReadLoop(resp, ndebug) ==
    IF \E k \in 1..Reads(resp.len) : TooLarge(ResBefore(k), NBytes(resp.len, k))
    THEN FetchThrow
    ELSE IF LastRead(resp.end) = 0 \/ ndebug
         THEN FetchDoc(resp.len, resp.body)
         ELSE FetchAbort

fetch_file_as_chrome(resp, ndebug) ==
    IF ~resp.stream \/ resp.status \div 100 # 2
    THEN FetchNone
    ELSE ReadLoop(resp, ndebug)

-----------------------------------------------------------------------------
(* The scrape provider's pure parts. *)

Whitespace == {" ", "\n", "\t"}
BrTags == {"<br>", "<br/>", "<br />"}
Tags == BrTags \cup {"<div>", "</div>", "<!--U-->", "<i>", "</i>", "<html>"}
Brackets == {"(", ")", "[", "]"}

Front(s) == SubSeq(s, 1, Len(s) - 1)
Last(s) == s[Len(s)]

\* the first index >= i of d that holds no whitespace (Len(d) + 1 if none)
RECURSIVE SkipSpace(_, _)
SkipSpace(d, i) ==
    IF i <= Len(d) /\ d[i] \in Whitespace THEN SkipSpace(d, i + 1) ELSE i

RECURSIVE TrimRight(_)
TrimRight(s) ==
    IF s # <<>> /\ Last(s) \in Whitespace THEN TrimRight(Front(s)) ELSE s

\* <div>\s*<!--\s*Usage of azlyrics.com content[^]*?-->\s*([^]*?)\s*</div>
\* tried at position i: the capture group, or the empty option
MatchAt(d, i) ==
    IF d[i] # "<div>" THEN None
    ELSE LET j == SkipSpace(d, i + 1) IN
         IF j > Len(d) \/ d[j] # "<!--U-->" THEN None
         ELSE LET k == SkipSpace(d, j + 1)
                  ends == {e \in k..Len(d) : d[e] = "</div>"}
              IN  IF ends = {} THEN None
                  ELSE LET e == CHOOSE x \in ends : \A y \in ends : x <= y
                       IN  Some(TrimRight(SubSeq(d, k, e - 1)))

\* regex_search: the leftmost position where the expression matches
RegexSearch(d) ==
    LET at == {i \in 1..Len(d) : IsSome(MatchAt(d, i))} IN
    IF at = {} THEN None
    ELSE MatchAt(d, CHOOSE x \in at : \A y \in at : x <= y)

RECURSIVE RemoveTokens(_, _)
RemoveTokens(s, drop) ==
    IF s = <<>> THEN <<>>
    ELSE IF Head(s) \in drop THEN RemoveTokens(Tail(s), drop)
         ELSE <<Head(s)>> \o RemoveTokens(Tail(s), drop)

Unquote(c) == IF c = "&quot;" THEN "\"" ELSE c

\* the three regex_replace passes
CleanFragment(s) ==
    MapSeq(RemoveTokens(RemoveTokens(s, BrTags), Tags), Unquote)

\* a cleaning that leaves the end of the text as it is
EndWithNewline_never(s) == s

\* if (lyrics.back() != '\n') lyrics.push_back('\n')
EndWithNewline(s) == IF Last(s) # "\n" THEN Append(s, "\n") ELSE s

\* lines 228-246: extraction and cleaning of a fetched document
ExtractLyrics(d) ==
    LET m == RegexSearch(d) IN
    IF ~IsSome(m) THEN None
    ELSE LET lyrics == CleanFragment(Val(m)) IN
         IF lyrics = <<>> THEN None ELSE Some(EndWithNewline(lyrics))

\* the inner while loop: drops trailing characters up to a bracket
RECURSIVE DropToBracket(_)
DropToBracket(t) ==
    IF t # <<>> /\ Last(t) \notin Brackets THEN DropToBracket(Front(t)) ELSE t

\* a provider that gives up after the first failed fetch
TruncateTitle_no_retry(t) == None

\* a retry that drops a whole bracketed group at once
TruncateTitle_group(t) ==
    LET u == DropToBracket(t) IN
    IF u = <<>> THEN None
    ELSE LET v == DropToBracket(Front(u)) IN
         IF v = <<>> THEN Some(<<>>) ELSE Some(Front(v))

\* a retry that leaves the bracket it stopped at in the title
TruncateTitle_keep_bracket(t) ==
    LET u == DropToBracket(t) IN
    IF u = <<>> THEN None ELSE Some(u)

\* the title after one failed fetch: the empty option when the provider
\* gives up, else the shortened title
TruncateTitle(t) ==
    LET u == DropToBracket(t) IN
    IF u = <<>> THEN None ELSE Some(Front(u))

\* the URL queried for a working title
ApiUrl(artist, t) ==
    AZL_FMT(uri_escape_string(artist), uri_escape_string(alphadigitize(t)))

-----------------------------------------------------------------------------
(* The cache directory. *)

\* lyrics_dir, character by character where mkpath looks at it: the
\* directory names stand for their characters, "/cache" for the value of
\* XDG_CACHE_HOME or HOME/.cache
lyrics_dir_name == <<"/", "cache", "/", "deadbeef", "/", "lyrics", "/">>

\* the directories mkpath(lyrics_dir) asks for
LyricsDirs == { SubSeq(lyrics_dir_name, 1, i - 1) :
                  i \in {j \in 2..Len(lyrics_dir_name) : lyrics_dir_name[j] = "/"} }

\* the directory the cache files are in
LyricsRoot == SubSeq(lyrics_dir_name, 1, Len(lyrics_dir_name) - 1)

\* the directory a path is in; <<>> is the root of the file system
RECURSIVE Parent(_)
Parent(path) ==
    IF path = <<>> \/ Last(path) = "/" THEN Front(path) ELSE Parent(Front(path))

\* mkdir(dir, mode): the error and the directories afterwards; the calls
\* for the directories in deny fail for want of permission
mkdir(fs, dir, deny) ==
    IF dir \in fs THEN [err |-> "EEXIST", dirs |-> fs]
    ELSE IF Parent(dir) # <<>> /\ Parent(dir) \notin fs
         THEN [err |-> "ENOENT", dirs |-> fs]
    ELSE IF dir \in deny THEN [err |-> "EACCES", dirs |-> fs]
    ELSE [err |-> "0", dirs |-> fs \cup {dir}]

\* a mkpath that takes an existing directory for a failure
MkdirFailed_strict(err) == err # "0"

\* mkdir(...) && errno != EEXIST
MkdirFailed(err) == err \notin {"0", "EEXIST"}

\* name.find_first_of('/', pos): 0 for npos
FindSlash(name, pos) ==
    IF \E i \in pos..Len(name) : name[i] = "/"
    THEN CHOOSE i \in pos..Len(name) :
            name[i] = "/" /\ \A j \in pos..(i - 1) : name[j] # "/"
    ELSE 0

\* the loop of mkpath from position pos on
RECURSIVE MkpathFrom(_, _, _, _)
MkpathFrom(name, pos, fs, deny) ==
    LET p == FindSlash(name, pos) IN
    IF p = 0 THEN [ret |-> "0", dirs |-> fs]
    ELSE LET dir == SubSeq(name, 1, p - 1) IN
         IF dir = <<>> THEN MkpathFrom(name, p + 1, fs, deny)
         ELSE LET r == mkdir(fs, dir, deny) IN
              IF MkdirFailed(r.err) THEN [ret |-> r.err, dirs |-> r.dirs]
              ELSE MkpathFrom(name, p + 1, r.dirs, deny)

\* mkpath(name, mode): the value returned and the directories afterwards
mkpath(name, fs, deny) == MkpathFrom(name, 1, fs, deny)

\* ensure_lyrics_path_exists()
ensure_lyrics_path_exists(fs, deny) == mkpath(lyrics_dir_name, fs, deny).dirs

\* ofstream t(filename) can open a file only in a directory that exists
CanOpen(fs) == LyricsRoot \in fs

-----------------------------------------------------------------------------
(* The metadata lock. *)

\* pl_lock(), pl_unlock(): the lock is counted per thread
pl_lock(l) == l + 1
pl_unlock(l) == l - 1

\* a block that declares a pl_lock_guard: the count inside the block and
\* after it, however the block is left
pl_lock_guard(l) == [held |-> pl_lock(l), after |-> pl_unlock(pl_lock(l))]

\* a provider that unlocks by hand and forgets to on the early return
LockAfterRead_leak(l, early) ==
    IF early THEN pl_lock_guard(l).held ELSE pl_lock_guard(l).after

\* lines 189-199: the count after the block that reads artist and title,
\* left at its end or by the return of line 195
LockAfterRead(l, early) == pl_lock_guard(l).after

-----------------------------------------------------------------------------
(* The state. *)

runVars == <<track, runs, published, consulted, hit, pi, cacheAtStart, saves,
             cacheLoad>>
cacheVars == <<cache, savedPairs, lastSave>>
provVars == <<scriptCall, provResult, sTitle, sArtist, attempts, sDoc>>
otherVars == <<action, kq>>
raceVars == <<file, wr>>
hostVars == <<dirs, ensured, direct, raceVars>>
lockVars == <<lock, racy>>

\* the provider table in the other order
providers_swapped == <<"scrape", "script">>

\* static ... providers[] = {&get_lyrics_from_script, &download_lyrics_from_azlyrics}
providers == <<"script", "scrape">>

EmptyCache == [p \in CachePaths |-> None]

Init ==
    /\ pc = "idle"
    /\ track = NoTrack
    /\ runs = 0
    /\ published = <<>>
    /\ consulted = <<>>
    /\ hit = ""
    /\ pi = 1
    /\ cache = EmptyCache
    /\ cacheAtStart = EmptyCache
    /\ saves = <<>>
    /\ cacheLoad = None
    /\ savedPairs = {}
    /\ lastSave = [p \in CachePaths |-> None]
    /\ scriptCall = None
    /\ provResult = None
    /\ sTitle = <<>>
    /\ sArtist = <<>>
    /\ attempts = <<>>
    /\ sDoc = <<>>
    /\ action = None
    /\ kq = None
    /\ dirs = LyricsDirs
    /\ ensured = None
    /\ direct = FALSE
    /\ lock = 0
    /\ racy = FALSE
    /\ file = None
    /\ wr = <<>>

-----------------------------------------------------------------------------
(* update_lyrics. *)

\* a block under a pl_lock_guard that looks metadata up
GuardedLookup ==
    /\ lock' = pl_lock_guard(lock).after
    /\ racy' = (racy \/ pl_lock_guard(lock).held = 0)

\* set_lyrics(track, text)
set_lyrics(text) == published' = Append(published, text)

\* the host starts a resolution for a track
UL_Start ==
    /\ pc = "idle"
    /\ runs < MaxRuns
    /\ \E t \in Tracks : track' = t
    /\ runs' = runs + 1
    /\ pc' = "meta"
    /\ published' = <<>>
    /\ consulted' = <<>>
    /\ hit' = ""
    /\ pi' = 1
    /\ cacheAtStart' = cache
    /\ saves' = <<>>
    /\ cacheLoad' = None
    /\ UNCHANGED <<cacheVars, provVars, otherVars, hostVars, lockVars>>

\* an update_lyrics that writes embedded lyrics back to the cache
UL_Metadata_caching ==
    /\ pc = "meta"
    /\ consulted' = Append(consulted, "metadata")
    /\ LET lyrics == get_lyrics_from_metadata(track) IN
       IF IsSome(lyrics)
       THEN /\ set_lyrics(Val(lyrics))
            /\ hit' = "metadata"
            /\ pc' = "done"
            /\ IF IsSome(track.artist) /\ IsSome(track.title)
               THEN LET a == Val(track.artist)
                        t == Val(track.title)
                        r == save_cached_lyrics(cache, a, t, Val(lyrics), TRUE)
                    IN  /\ cache' = r.cache
                        /\ saves' = Append(saves, [artist |-> a, title |-> t,
                                                   text |-> Val(lyrics), ok |-> r.ok,
                                                   root |-> CanOpen(dirs)])
               ELSE UNCHANGED <<cache, saves>>
       ELSE /\ pc' = "ids"
            /\ UNCHANGED <<published, hit, cache, saves>>
    /\ GuardedLookup
    /\ UNCHANGED <<track, runs, pi, cacheAtStart, cacheLoad>>
    /\ UNCHANGED <<savedPairs, lastSave, provVars, otherVars, hostVars>>

\* lines 252-255
UL_Metadata ==
    /\ pc = "meta"
    /\ consulted' = Append(consulted, "metadata")
    /\ LET lyrics == get_lyrics_from_metadata(track) IN
       IF IsSome(lyrics)
       THEN /\ set_lyrics(Val(lyrics))
            /\ hit' = "metadata"
            /\ pc' = "done"
       ELSE /\ pc' = "ids"
            /\ UNCHANGED <<published, hit>>
    /\ GuardedLookup
    /\ UNCHANGED <<track, runs, pi, cacheAtStart, saves, cacheLoad>>
    /\ UNCHANGED <<cacheVars, provVars, otherVars, hostVars>>

\* a check that forgets the title
HasIdentity_artist_only(t) == IsSome(t.artist)

\* if (artist && title)
HasIdentity(t) == IsSome(t.artist) /\ IsSome(t.title)

\* lines 257-265
UL_Identity ==
    /\ pc = "ids"
    /\ pc' = IF HasIdentity(track) THEN "cache" ELSE "notfound"
    /\ GuardedLookup
    /\ UNCHANGED <<runVars, cacheVars, provVars, otherVars, hostVars>>

\* lines 266-269
UL_Cache ==
    /\ pc = "cache"
    /\ consulted' = Append(consulted, "cache")
    /\ LET lyrics == load_cached_lyrics(cache, Val(track.artist), Val(track.title)) IN
       /\ cacheLoad' = Some([artist |-> Val(track.artist),
                             title |-> Val(track.title), result |-> lyrics])
       /\ IF IsSome(lyrics)
          THEN /\ set_lyrics(Val(lyrics))
               /\ hit' = "cache"
               /\ pc' = "done"
          ELSE /\ pc' = "loading"
               /\ UNCHANGED <<published, hit>>
    /\ UNCHANGED <<track, runs, pi, cacheAtStart, saves>>
    /\ UNCHANGED <<cacheVars, provVars, otherVars, hostVars, lockVars>>

\* line 271
UL_Loading ==
    /\ pc = "loading"
    /\ set_lyrics(Loading)
    /\ pi' = 1
    /\ pc' = "providers"
    /\ cacheLoad' = None
    /\ UNCHANGED <<track, runs, consulted, hit, cacheAtStart, saves>>
    /\ UNCHANGED <<cacheVars, provVars, otherVars, hostVars, lockVars>>

\* line 275, f == get_lyrics_from_script: the whole call
UL_CallScript ==
    /\ pc = "providers"
    /\ pi <= Len(providers)
    /\ providers[pi] = "script"
    /\ consulted' = Append(consulted, "script")
    /\ \E env \in ScriptEnvs :
        LET r == get_lyrics_from_script(env) IN
        /\ scriptCall' = Some([env |-> env, result |-> r.result,
                               spawned |-> r.spawned])
        /\ provResult' = r.result
    /\ pc' = "provider_ret"
    /\ UNCHANGED <<track, runs, published, hit, pi, cacheAtStart, saves, cacheLoad>>
    /\ UNCHANGED <<sTitle, sArtist, attempts, sDoc>>
    /\ UNCHANGED <<cacheVars, otherVars, hostVars, lockVars>>

\* line 275, f == download_lyrics_from_azlyrics: the call begins
UL_CallScrape ==
    /\ pc = "providers"
    /\ pi <= Len(providers)
    /\ providers[pi] = "scrape"
    /\ consulted' = Append(consulted, "scrape")
    /\ pc' = "s_enter"
    /\ UNCHANGED <<track, runs, published, hit, pi, cacheAtStart, saves, cacheLoad>>
    /\ UNCHANGED <<cacheVars, provVars, otherVars, hostVars, lockVars>>

-----------------------------------------------------------------------------
(* download_lyrics_from_azlyrics, called from update_lyrics. *)

\* lines 187-203: the metadata read and the normalization of the artist
S_Enter ==
    /\ pc = "s_enter"
    /\ IF ~IsSome(track.artist) \/ ~IsSome(track.title)
       THEN /\ provResult' = None
            /\ pc' = "provider_ret"
            /\ UNCHANGED <<sTitle, sArtist, attempts>>
       ELSE /\ sArtist' = alphadigitize(lowercase(Val(track.artist)))
            /\ sTitle' = lowercase(Val(track.title))
            /\ attempts' = <<>>
            /\ pc' = "s_fetch"
            /\ UNCHANGED provResult
    /\ lock' = LockAfterRead(lock, ~IsSome(track.artist) \/ ~IsSome(track.title))
    /\ racy' = (racy \/ pl_lock_guard(lock).held = 0)
    /\ UNCHANGED <<scriptCall, sDoc>>
    /\ UNCHANGED <<runVars, cacheVars, otherVars, hostVars>>

\* lines 206-212: one fetch of the retry loop, the whole call of
\* fetch_file_as_chrome
S_Fetch ==
    /\ pc = "s_fetch"
    /\ \E resp \in Responses, ndebug \in BOOLEAN :
        attempts' = Append(attempts,
                           [url |-> ApiUrl(sArtist, sTitle),
                            title |-> sTitle,
                            resp |-> resp,
                            out |-> fetch_file_as_chrome(resp, ndebug)])
    /\ pc' = "s_fetched"
    /\ UNCHANGED <<scriptCall, provResult, sTitle, sArtist, sDoc>>
    /\ UNCHANGED <<runVars, cacheVars, otherVars, hostVars, lockVars>>

LastOut == attempts[Len(attempts)].out

\* lines 213-214: a document was fetched
S_Break ==
    /\ pc = "s_fetched"
    /\ LastOut.kind = "doc"
    /\ sDoc' = LastOut.body
    /\ pc' = "s_extract"
    /\ UNCHANGED <<scriptCall, provResult, sTitle, sArtist, attempts>>
    /\ UNCHANGED <<runVars, cacheVars, otherVars, hostVars, lockVars>>

\* lines 216-223: the fetch returned the empty option
S_Retry ==
    /\ pc = "s_fetched"
    /\ LastOut.kind = "none"
    /\ LET t == TruncateTitle(sTitle) IN
       IF IsSome(t)
       THEN /\ sTitle' = Val(t)
            /\ pc' = "s_fetch"
            /\ UNCHANGED provResult
       ELSE /\ sTitle' = <<>>
            /\ provResult' = None
            /\ pc' = "provider_ret"
    /\ UNCHANGED <<scriptCall, sArtist, attempts, sDoc>>
    /\ UNCHANGED <<runVars, cacheVars, otherVars, hostVars, lockVars>>

\* line 174: the runtime_error leaves fetch_file_as_chrome; neither
\* download_lyrics_from_azlyrics (line 212) nor update_lyrics (line 275)
\* has a handler, so it leaves update_lyrics
S_Throw ==
    /\ pc = "s_fetched"
    /\ LastOut.kind = "throw"
    /\ pc' = "escaped"
    /\ UNCHANGED <<runVars, cacheVars, provVars, otherVars, hostVars, lockVars>>

\* line 178: the assertion fails and the process is aborted
S_Abort ==
    /\ pc = "s_fetched"
    /\ LastOut.kind = "abort"
    /\ pc' = "aborted"
    /\ UNCHANGED <<runVars, cacheVars, provVars, otherVars, hostVars, lockVars>>

\* lines 225-246
S_Extract ==
    /\ pc = "s_extract"
    /\ provResult' = ExtractLyrics(sDoc)
    /\ pc' = "provider_ret"
    /\ UNCHANGED <<scriptCall, sTitle, sArtist, attempts, sDoc>>
    /\ UNCHANGED <<runVars, cacheVars, otherVars, hostVars, lockVars>>

-----------------------------------------------------------------------------
(* update_lyrics, after a provider returned. *)

\* lines 275-278: the provider returned lyrics
UL_ProviderHit ==
    /\ pc = "provider_ret"
    /\ ~direct
    /\ IsSome(provResult)
    /\ set_lyrics(Val(provResult))
    /\ hit' = providers[pi]
    /\ \E openOk \in {b \in BOOLEAN : b => CanOpen(dirs)} :
        LET a == Val(track.artist)
            t == Val(track.title)
            r == save_cached_lyrics(cache, a, t, Val(provResult), openOk)
        IN  /\ cache' = r.cache
            /\ saves' = Append(saves, [artist |-> a, title |-> t,
                                       text |-> Val(provResult), ok |-> r.ok,
                                       root |-> CanOpen(dirs)])
            /\ savedPairs' = IF r.ok THEN savedPairs \cup {<<a, t>>}
                             ELSE savedPairs
            /\ lastSave' = IF r.ok
                           THEN [lastSave EXCEPT ![cached_filename(a, t)] =
                                    Some([artist |-> a, title |-> t,
                                          text |-> Val(provResult)])]
                           ELSE lastSave
    /\ pc' = "done"
    /\ UNCHANGED <<track, runs, consulted, pi, cacheAtStart, cacheLoad>>
    /\ UNCHANGED <<provVars, otherVars, hostVars, lockVars>>

\* lines 274-275: the provider returned the empty option
UL_ProviderMiss ==
    /\ pc = "provider_ret"
    /\ ~direct
    /\ ~IsSome(provResult)
    /\ pi' = pi + 1
    /\ pc' = IF pi + 1 > Len(providers) THEN "notfound" ELSE "providers"
    /\ scriptCall' = None
    /\ attempts' = <<>>
    /\ sTitle' = <<>>
    /\ sArtist' = <<>>
    /\ UNCHANGED <<provResult, sDoc>>
    /\ UNCHANGED <<track, runs, published, consulted, hit, cacheAtStart, saves,
                   cacheLoad>>
    /\ UNCHANGED <<cacheVars, otherVars, hostVars, lockVars>>

\* line 282
UL_NotFound ==
    /\ pc = "notfound"
    /\ set_lyrics(NotFound)
    /\ pc' = "done"
    /\ UNCHANGED <<track, runs, consulted, hit, pi, cacheAtStart, saves, cacheLoad>>
    /\ UNCHANGED <<cacheVars, provVars, otherVars, hostVars, lockVars>>

\* update_lyrics has returned; the thread is free for the next resolution
UL_Return ==
    /\ pc = "done"
    /\ pc' = "idle"
    /\ track' = NoTrack
    /\ published' = <<>>
    /\ consulted' = <<>>
    /\ hit' = ""
    /\ pi' = 1
    /\ cacheAtStart' = cache
    /\ saves' = <<>>
    /\ cacheLoad' = None
    /\ scriptCall' = None
    /\ provResult' = None
    /\ sTitle' = <<>>
    /\ sArtist' = <<>>
    /\ attempts' = <<>>
    /\ sDoc' = <<>>
    /\ UNCHANGED <<runs, cacheVars, otherVars, hostVars, lockVars>>

-----------------------------------------------------------------------------
(* remove_from_cache_action. *)

\* the action contexts of the host (DDB_ACTION_CTX_*)
Contexts == {"MAIN", "SELECTION", "PLAYLIST", "NOWPLAYING"}

\* the tracks a playlist of the model can hold
PlayIds ==
    { <<Some(<<"A", "/", "b">>), Some(<<"S">>)>>,
      <<Some(<<"A", "_", "b">>), Some(<<"S">>)>>,
      <<Some(<<"A", "/", "b">>), Some(<<"T", "[", "x", "]">>)>>,
      <<None, Some(<<"S">>)>>,
      <<Some(<<"A", "/", "b">>), None>> }
PlayItems ==
    { [artist |-> id[1], title |-> id[2], selected |-> sel] :
        id \in PlayIds, sel \in BOOLEAN }

RECURSIVE SeqsUpTo(_, _)
SeqsUpTo(S, n) ==
    IF n = 0 THEN {<<>>}
    ELSE LET shorter == SeqsUpTo(S, n - 1) IN
         shorter \cup {Append(q, x) : q \in shorter, x \in S}

\* plt_get_curr(): no playlist, or its tracks in order
Playlists == {None} \cup {Some(q) : q \in SeqsUpTo(PlayItems, MaxPlaylist)}

\* a walk that takes every track of the playlist for selected
pl_is_selected_all(item) == TRUE

\* pl_is_selected(current)
pl_is_selected(item) == item.selected

\* lines 311-316: the body of the loop for one track
RemoveOne(c, item) ==
    IF pl_is_selected(item) /\ is_cached(c, item.artist, item.title)
    THEN RemoveFile(c, cached_filename(Val(item.artist), Val(item.title)))
    ELSE c

\* lines 309-320: the walk over the playlist
RECURSIVE RemoveLoop(_, _)
RemoveLoop(c, items) ==
    IF items = <<>> THEN c
    ELSE RemoveLoop(RemoveOne(c, Head(items)), Tail(items))

\* the whole handler: the cache afterwards and the value returned
remove_from_cache_action(c, ctx, playlist) ==
    IF ctx = "SELECTION" /\ IsSome(playlist)
    THEN [cache |-> RemoveLoop(c, Val(playlist)), ret |-> 0]
    ELSE [cache |-> c, ret |-> 0]

\* the user invokes the action while no resolution is running, in one of
\* the contexts ctxs on one of the playlists pls
Remove(ctxs, pls) ==
    /\ pc = "idle"
    /\ \E ctx \in ctxs, playlist \in pls :
        LET r == remove_from_cache_action(cache, ctx, playlist) IN
        /\ action' = Some([ctx |-> ctx, playlist |-> playlist,
                           before |-> cache, ret |-> r.ret])
        /\ cache' = r.cache
        /\ lastSave' = [p \in CachePaths |->
                          IF IsSome(cache[p]) /\ ~IsSome(r.cache[p])
                          THEN None ELSE lastSave[p]]
        /\ IF ctx = "SELECTION" THEN GuardedLookup ELSE UNCHANGED lockVars
    /\ pc' = "action_ret"
    /\ UNCHANGED <<savedPairs, runVars, provVars, kq, hostVars>>

\* between resolutions: the selection context, one selected track
SelectedOne == { Some(<<i>>) : i \in {x \in PlayItems : x.selected} }
Action_RemoveSelected == Remove({"SELECTION"}, SelectedOne)

\* any context, any playlist
Action_Remove == Remove(Contexts, Playlists)

\* the handler has returned
Action_Return ==
    /\ pc = "action_ret"
    /\ pc' = "idle"
    /\ action' = None
    /\ cacheAtStart' = cache
    /\ UNCHANGED <<track, runs, published, consulted, hit, pi, saves, cacheLoad>>
    /\ UNCHANGED <<cacheVars, provVars, kq, hostVars, lockVars>>

-----------------------------------------------------------------------------
(* The specification of the pipeline. *)

Next ==
    \/ UL_Start
    \/ UL_Metadata
    \/ UL_Identity
    \/ UL_Cache
    \/ UL_Loading
    \/ UL_CallScript
    \/ UL_CallScrape
    \/ S_Enter
    \/ S_Fetch
    \/ S_Break
    \/ S_Retry
    \/ S_Throw
    \/ S_Abort
    \/ S_Extract
    \/ UL_ProviderHit
    \/ UL_ProviderMiss
    \/ UL_NotFound
    \/ UL_Return
    \/ Action_RemoveSelected
    \/ Action_Return

Spec == Init /\ [][Next]_vars

-----------------------------------------------------------------------------
(* The specification of the host's view: the host creates the cache
   directory with ensure_lyrics_path_exists, which may not have happened
   yet, and may call the scrape provider by itself. *)

\* the directories that can exist: none without the one it is in
DirStates == { fs \in SUBSET LyricsDirs :
                 \A d \in fs : Parent(d) = <<>> \/ Parent(d) \in fs }

\* the host calls ensure_lyrics_path_exists() between resolutions
Host_Ensure ==
    /\ pc = "idle"
    /\ \E deny \in SUBSET LyricsDirs :
        LET r == mkpath(lyrics_dir_name, dirs, deny) IN
        /\ dirs' = ensure_lyrics_path_exists(dirs, deny)
        /\ ensured' = Some([before |-> dirs, deny |-> deny, ret |-> r.ret])
    /\ pc' = "ensure_ret"
    /\ UNCHANGED <<runVars, cacheVars, provVars, otherVars, direct, lockVars, raceVars>>

Host_EnsureReturn ==
    /\ pc = "ensure_ret"
    /\ pc' = "idle"
    /\ ensured' = None
    /\ UNCHANGED <<runVars, cacheVars, provVars, otherVars, dirs, direct, lockVars, raceVars>>

\* the host calls download_lyrics_from_azlyrics(track) itself, before the
\* first resolution
Direct_CallScrape ==
    /\ pc = "idle"
    /\ runs = 0
    /\ \E t \in Tracks : track' = t
    /\ pi' = CHOOSE i \in 1..Len(providers) : providers[i] = "scrape"
    /\ direct' = TRUE
    /\ pc' = "s_enter"
    /\ UNCHANGED <<runs, published, consulted, hit, cacheAtStart, saves, cacheLoad>>
    /\ UNCHANGED <<cacheVars, provVars, otherVars, dirs, ensured, lockVars, raceVars>>

\* the provider has returned to the host
Direct_Return ==
    /\ pc = "provider_ret"
    /\ direct
    /\ pc' = "idle"
    /\ direct' = FALSE
    /\ track' = NoTrack
    /\ pi' = 1
    /\ provResult' = None
    /\ sTitle' = <<>>
    /\ sArtist' = <<>>
    /\ attempts' = <<>>
    /\ sDoc' = <<>>
    /\ UNCHANGED <<runs, published, consulted, hit, cacheAtStart, saves, cacheLoad>>
    /\ UNCHANGED <<cacheVars, scriptCall, otherVars, dirs, ensured, lockVars, raceVars>>

InitHost ==
    /\ pc = "idle"
    /\ track = NoTrack
    /\ runs = 0
    /\ published = <<>>
    /\ consulted = <<>>
    /\ hit = ""
    /\ pi = 1
    /\ cache = EmptyCache
    /\ cacheAtStart = EmptyCache
    /\ saves = <<>>
    /\ cacheLoad = None
    /\ savedPairs = {}
    /\ lastSave = [p \in CachePaths |-> None]
    /\ scriptCall = None
    /\ provResult = None
    /\ sTitle = <<>>
    /\ sArtist = <<>>
    /\ attempts = <<>>
    /\ sDoc = <<>>
    /\ action = None
    /\ kq = None
    /\ dirs \in DirStates
    /\ ensured = None
    /\ direct = FALSE
    /\ lock = 0
    /\ racy = FALSE
    /\ file = None
    /\ wr = <<>>

NextHost ==
    \/ Next
    \/ Host_Ensure
    \/ Host_EnsureReturn
    \/ Direct_CallScrape
    \/ Direct_Return

SpecHost == InitHost /\ [][NextHost]_vars

-----------------------------------------------------------------------------
(* The specification of two resolutions for the same (artist, title) whose
   providers have returned and that save to the one cache file at the same
   time. A save is the open of line 71, which truncates the file, and the
   writes by which the stream empties its buffer into the file, each at the
   offset of the writer's own file descriptor. *)

\* the texts the two providers can have returned
RaceTexts == { <<"a", "b", "c", "\n">>, <<"x", "\n">>, <<"y", "z", "\n">> }

Writers == {1, 2}

\* write(fd, chunk) at offset off of a file: bytes past the old end that
\* the write does not cover read as NUL
Pwrite(f, off, chunk) ==
    [i \in 1..(IF Len(f) > off + Len(chunk) THEN Len(f) ELSE off + Len(chunk)) |->
        IF i > off /\ i <= off + Len(chunk) THEN chunk[i - off]
        ELSE IF i <= Len(f) THEN f[i]
        ELSE "NUL"]

\* a stream that opens the file for appending
OpenMode_append(f) == IF IsSome(f) THEN f ELSE Some(<<>>)

\* ofstream t(filename): the file is created or truncated
OpenMode(f) == Some(<<>>)

\* line 71, the file could be opened
W_Open(w) ==
    /\ wr[w].pc = "start"
    /\ file' = OpenMode(file)
    /\ wr' = [wr EXCEPT ![w].pc = "opened"]
    /\ UNCHANGED <<pc, runVars, cacheVars, provVars, otherVars, dirs, ensured,
                   direct, lockVars>>

\* lines 72-75, the file could not be opened
W_OpenFail(w) ==
    /\ wr[w].pc = "start"
    /\ wr' = [wr EXCEPT ![w].pc = "returned", ![w].ok = FALSE]
    /\ UNCHANGED <<pc, runVars, cacheVars, provVars, otherVars, dirs, ensured,
                   direct, lockVars, file>>

\* line 77 and the destructor of the stream: the next write of the text
W_Write(w) ==
    /\ wr[w].pc = "opened"
    /\ wr[w].off < Len(wr[w].text)
    /\ LET n == Min(StreamBuf, Len(wr[w].text) - wr[w].off)
           chunk == SubSeq(wr[w].text, wr[w].off + 1, wr[w].off + n)
       IN  /\ file' = Some(Pwrite(Val(file), wr[w].off, chunk))
           /\ wr' = [wr EXCEPT ![w].off = wr[w].off + n]
    /\ UNCHANGED <<pc, runVars, cacheVars, provVars, otherVars, dirs, ensured,
                   direct, lockVars>>

\* line 78: the text is written, the stream is closed
W_Return(w) ==
    /\ wr[w].pc = "opened"
    /\ wr[w].off = Len(wr[w].text)
    /\ wr' = [wr EXCEPT ![w].pc = "returned", ![w].ok = TRUE]
    /\ UNCHANGED <<pc, runVars, cacheVars, provVars, otherVars, dirs, ensured,
                   direct, lockVars, file>>

InitRace ==
    /\ pc = "idle"
    /\ track = NoTrack
    /\ runs = 0
    /\ published = <<>>
    /\ consulted = <<>>
    /\ hit = ""
    /\ pi = 1
    /\ cache = EmptyCache
    /\ cacheAtStart = EmptyCache
    /\ saves = <<>>
    /\ cacheLoad = None
    /\ savedPairs = {}
    /\ lastSave = [p \in CachePaths |-> None]
    /\ scriptCall = None
    /\ provResult = None
    /\ sTitle = <<>>
    /\ sArtist = <<>>
    /\ attempts = <<>>
    /\ sDoc = <<>>
    /\ action = None
    /\ kq = None
    /\ dirs = LyricsDirs
    /\ ensured = None
    /\ direct = FALSE
    /\ lock = 0
    /\ racy = FALSE
    /\ file \in {None} \cup {Some(t) : t \in RaceTexts}
    /\ wr \in [Writers -> [pc : {"start"}, text : RaceTexts, off : {0},
                            ok : {FALSE}]]

NextRace ==
    \E w \in Writers : W_Open(w) \/ W_OpenFail(w) \/ W_Write(w) \/ W_Return(w)

SpecRace == InitRace /\ [][NextRace]_vars

-----------------------------------------------------------------------------
(* The specification of the remove action alone, on the caches that
   resolutions leave behind. *)

CachesOnDisk == [CachePaths -> {None, Some(ScriptLyrics)}]

InitAction ==
    /\ pc = "idle"
    /\ track = NoTrack
    /\ runs = 0
    /\ published = <<>>
    /\ consulted = <<>>
    /\ hit = ""
    /\ pi = 1
    /\ cache \in CachesOnDisk
    /\ cacheAtStart = cache
    /\ saves = <<>>
    /\ cacheLoad = None
    /\ savedPairs = {}
    /\ lastSave = [p \in CachePaths |-> None]
    /\ scriptCall = None
    /\ provResult = None
    /\ sTitle = <<>>
    /\ sArtist = <<>>
    /\ attempts = <<>>
    /\ sDoc = <<>>
    /\ action = None
    /\ kq = None
    /\ dirs = LyricsDirs
    /\ ensured = None
    /\ direct = FALSE
    /\ lock = 0
    /\ racy = FALSE
    /\ file = None
    /\ wr = <<>>

NextAction == Action_Remove \/ Action_Return

SpecAction == InitAction /\ [][NextAction]_vars

-----------------------------------------------------------------------------
(* The specification of cached_filename alone: two (artist, title) pairs
   are drawn and their cache paths computed. *)

KeyTexts ==
    { <<"a">>, <<"c">>, <<"a", "/", "b">>, <<"a", "_", "b">>,
      <<"a", "-", "b">>, <<"b", "-", "c">> }

KeyQuery ==
    /\ pc = "idle"
    /\ kq = None
    /\ \E a1 \in KeyTexts, t1 \in KeyTexts, a2 \in KeyTexts, t2 \in KeyTexts :
        kq' = Some([a1 |-> a1, t1 |-> t1, a2 |-> a2, t2 |-> t2,
                    f1 |-> cached_filename(a1, t1),
                    f2 |-> cached_filename(a2, t2)])
    /\ UNCHANGED <<pc, runVars, cacheVars, provVars, action, hostVars, lockVars>>

NextKey == KeyQuery

SpecKey == Init /\ [][NextKey]_vars

-----------------------------------------------------------------------------
(* Properties. *)

Range(q) == { q[i] : i \in 1..Len(q) }
IsPrefix(q, r) == Len(q) <= Len(r) /\ \A i \in 1..Len(q) : q[i] = r[i]
Running == pc \notin {"idle", "action_ret"}
TrackKey == cached_filename(Val(track.artist), Val(track.title))

\* C1: the sources are asked in the order metadata, cache, script, scrape,
\* each at most once, and none after one of them produced lyrics: the
\* source that hit is the last one asked, after the script provider
\* returned lyrics the scrape provider is not called and the text published
\* last is the script's output, and after a cache hit no provider is called.
C1_SourceOrder ==
    /\ IsPrefix(consulted, <<"metadata", "cache", "script", "scrape">>)
    /\ hit # "" => /\ consulted # <<>>
                   /\ Last(consulted) = hit
                   /\ pc = "done"
    /\ (IsSome(scriptCall) /\ IsSome(Val(scriptCall).result)) =>
          /\ "scrape" \notin Range(consulted)
          /\ attempts = <<>>
          /\ pc = "done" => /\ hit = "script"
                            /\ Last(published) = Val(Val(scriptCall).result)
    /\ hit = "cache" => /\ Range(consulted) = {"metadata", "cache"}
                        /\ scriptCall = None
                        /\ attempts = <<>>
                        /\ Last(published) = Val(Val(cacheLoad).result)

C1_Witness ==
    /\ pc = "done"
    /\ hit = "script"
    /\ consulted = <<"metadata", "cache", "script">>
    /\ published = <<Loading, ScriptLyrics>>

\* C2: no exception leaves update_lyrics: a provider's failure, a fault
\* raised inside the document fetch included, is absorbed, and a run whose
\* sources all failed ends normally with "Lyrics not found" published last.
C2_NoExceptionEscapes ==
    /\ pc # "escaped"
    /\ (pc = "done" /\ hit = "") => Last(published) = NotFound

\* C3: every call of fetch_file_as_chrome that got a stream and a 2xx status
\* raises when the stream delivers more than 2^20 bytes; returns the whole
\* body when the stream delivers at most 2^20 bytes and then ends; and
\* returns the empty option, whatever the body, when there is no stream or
\* the status is not 2xx.
C3_SizeCap ==
    \A i \in 1..Len(attempts) :
        LET r == attempts[i].resp
            o == attempts[i].out
            is2xx == r.stream /\ r.status >= 200 /\ r.status <= 299
        IN  /\ (is2xx /\ r.len > MAX_FILE_SIZE) => o.kind = "throw"
            /\ (is2xx /\ r.len <= MAX_FILE_SIZE /\ r.end = "eof") =>
                  o = [kind |-> "doc", size |-> r.len, body |-> r.body]
            /\ ~is2xx => o.kind = "none"

C3_Witness ==
    /\ pc = "s_fetched"
    /\ attempts[Len(attempts)].resp.status = 200
    /\ attempts[Len(attempts)].resp.len = MAX_FILE_SIZE + 1
    /\ attempts[Len(attempts)].out.kind = "throw"

\* the lyrics texts the sources of the model can produce
RealLyrics ==
    {MetaLyrics, ScriptLyrics}
    \cup { Val(ExtractLyrics(d)) : d \in {x \in Docs : IsSome(ExtractLyrics(x))} }

C5_CacheWrite ==
    /\ Len(saves) <= 1
    /\ \A i \in 1..Len(saves) :
          /\ hit \in {"script", "scrape"}
          /\ IsSome(provResult)
          /\ saves[i].text = Val(provResult)
          /\ saves[i].text # <<>>
          /\ Last(published) = saves[i].text
          /\ saves[i].artist = Val(track.artist)
          /\ saves[i].title = Val(track.title)
          /\ cache = IF saves[i].ok
                     THEN [cacheAtStart EXCEPT ![TrackKey] = Some(saves[i].text)]
                     ELSE cacheAtStart
    /\ (Running /\ saves = <<>>) => cache = cacheAtStart
    /\ (pc = "done" /\ hit \in {"", "metadata", "cache"}) => saves = <<>>

C5_Witness ==
    /\ pc = "done"
    /\ hit = "scrape"
    /\ Len(saves) = 1
    /\ saves[1].ok
    /\ cache # cacheAtStart
    /\ cache[TrackKey] = Some(Last(published))

\* C6: a run for a track with no embedded lyrics and no artist or no title
\* publishes "Lyrics not found" and nothing else, asks neither the cache nor
\* a provider, and leaves the cache unchanged.
C6_NoIdentity ==
    (Running /\ ~IsSome(track.lyrics)
             /\ ~(IsSome(track.artist) /\ IsSome(track.title))) =>
        /\ pc \in {"meta", "ids", "notfound", "done"}
        /\ Range(consulted) \subseteq {"metadata"}
        /\ published = IF pc = "done" THEN <<NotFound>> ELSE <<>>
        /\ cacheLoad = None
        /\ scriptCall = None
        /\ attempts = <<>>
        /\ saves = <<>>
        /\ cache = cacheAtStart

C6_Witness ==
    /\ pc = "done"
    /\ ~IsSome(track.lyrics)
    /\ IsSome(track.artist)
    /\ ~IsSome(track.title)
    /\ published = <<NotFound>>
    /\ consulted = <<"metadata">>

\* the last load found the text that the last save of the same (artist,
\* title) wrote, when no other save to that file and no removal of it came
\* in between
RoundTrip ==
    IsSome(cacheLoad) =>
        LET l == Val(cacheLoad)
            w == lastSave[cached_filename(l.artist, l.title)]
        IN  (IsSome(w) /\ Val(w).artist = l.artist /\ Val(w).title = l.title)
                => l.result = Some(Val(w).text)

\* C7 as stated: a load after a save of the same (artist, title) returns the
\* saved text, and a load of an (artist, title) that was never saved returns
\* the empty option.
C7_RoundTripNeverSaved ==
    /\ RoundTrip
    /\ IsSome(cacheLoad) =>
          (<<Val(cacheLoad).artist, Val(cacheLoad).title>> \notin savedPairs
              => Val(cacheLoad).result = None)

\* C7, amended: a load after a save of the same (artist, title) returns the
\* saved text, and a load of an (artist, title) returns the empty option
\* when no pair that maps to the same cache path was ever saved.
C7_RoundTripNoFile ==
    /\ RoundTrip
    /\ IsSome(cacheLoad) =>
          ((\A p \in savedPairs :
                cached_filename(p[1], p[2]) #
                    cached_filename(Val(cacheLoad).artist, Val(cacheLoad).title))
              => Val(cacheLoad).result = None)

C7_Witness ==
    /\ IsSome(cacheLoad)
    /\ "/" \in Range(Val(cacheLoad).artist)
    /\ <<Val(cacheLoad).artist, Val(cacheLoad).title>> \in savedPairs
    /\ IsSome(Val(cacheLoad).result)
    /\ lastSave[cached_filename(Val(cacheLoad).artist, Val(cacheLoad).title)]
          = Some([artist |-> Val(cacheLoad).artist,
                  title |-> Val(cacheLoad).title,
                  text |-> Val(Val(cacheLoad).result)])

\* the part of a title before its first bracket
RECURSIVE BaseOf(_)
BaseOf(t) ==
    IF t = <<>> \/ Head(t) \in Brackets THEN <<>>
    ELSE <<Head(t)>> \o BaseOf(Tail(t))

\* a title of the form base + bracketed suffix
HasBracketSuffix(t) ==
    /\ t # <<>>
    /\ Last(t) \in {")", "]"}
    /\ alphadigitize(BaseOf(t)) # <<>>
    /\ BaseOf(t) # t

\* the URL derived from the normalized base of the track's title
BaseUrl ==
    AZL_FMT(uri_escape_string(alphadigitize(lowercase(Val(track.artist)))),
            uri_escape_string(alphadigitize(lowercase(BaseOf(Val(track.title))))))

ScrapeReturned == pc = "provider_ret" /\ providers[pi] = "scrape"

\* C8: when the scrape provider returns for a title of the form base +
\* bracketed suffix, and its fetches succeeded exactly for the URL derived
\* from the normalized base, then it did query that URL and it returns the
\* lyrics extracted from the document fetched there, which is not the empty
\* option for a document that holds lyrics.
C8_TruncationRetry ==
    (/\ ScrapeReturned
     /\ HasBracketSuffix(Val(track.title))
     /\ \A i \in 1..Len(attempts) :
           /\ attempts[i].out.kind \in {"doc", "none"}
           /\ attempts[i].out.kind = "doc" <=> attempts[i].url = BaseUrl)
    => \E i \in 1..Len(attempts) :
           /\ attempts[i].url = BaseUrl
           /\ attempts[i].out.kind = "doc"
           /\ provResult = ExtractLyrics(attempts[i].out.body)
           /\ attempts[i].out.body = DocLyrics => IsSome(provResult)

C8_Witness ==
    /\ ScrapeReturned
    /\ track.title = Some(<<"S", " ", "(", "R", ")">>)
    /\ Len(attempts) = 3
    /\ attempts[1].out.kind = "none"
    /\ attempts[1].url # BaseUrl
    /\ attempts[2].out.kind = "none"
    /\ attempts[3].out.kind = "doc"
    /\ attempts[3].url = BaseUrl
    /\ IsSome(provResult)

\* artist + '-' + title after the slashes of both were replaced
Joined(artist, title) ==
    ReplaceSlash(artist) \o <<"-">> \o ReplaceSlash(title)

\* C9 as stated: two pairs have the same cache path exactly when they are
\* equal after every '/' of both fields was replaced by '_'.
C9_InjectiveModuloSlash ==
    IsSome(kq) =>
        LET q == Val(kq) IN
        (q.f1 = q.f2) <=> (/\ ReplaceSlash(q.a1) = ReplaceSlash(q.a2)
                           /\ ReplaceSlash(q.t1) = ReplaceSlash(q.t2))

\* C9, amended: the path is a function of the pair; two pairs have the same
\* cache path exactly when artist + '-' + title, after every '/' of both
\* fields was replaced by '_', is the same string; so pairs that are equal
\* after the replacement collide, and so do pairs that differ only in where
\* the '-' between artist and title falls.
C9_InjectiveModuloJoin ==
    IsSome(kq) =>
        LET q == Val(kq) IN
        /\ (q.a1 = q.a2 /\ q.t1 = q.t2) => q.f1 = q.f2
        /\ (q.f1 = q.f2) <=> (Joined(q.a1, q.t1) = Joined(q.a2, q.t2))
        /\ (/\ ReplaceSlash(q.a1) = ReplaceSlash(q.a2)
            /\ ReplaceSlash(q.t1) = ReplaceSlash(q.t2)) => q.f1 = q.f2

C9_Witness ==
    /\ IsSome(kq)
    /\ Val(kq).a1 = <<"a", "/", "b">>
    /\ Val(kq).a2 = <<"a", "_", "b">>
    /\ Val(kq).t1 = Val(kq).t2
    /\ Val(kq).f1 = Val(kq).f2

\* the selected tracks of a playlist that have artist and title
Targets(items) ==
    { i \in 1..Len(items) :
        items[i].selected /\ IsSome(items[i].artist) /\ IsSome(items[i].title) }

ItemPath(item) == cached_filename(Val(item.artist), Val(item.title))

\* C10: the handler returns 0; in the selection context, afterwards no
\* selected track of the playlist that has artist and title is cached, and
\* every cache file that is not the file of such a track is as before (the
\* files of unselected tracks with another path, and nothing is created);
\* in any other context, and without a current playlist, the cache is
\* unchanged.
C10_RemoveAction ==
    IsSome(action) =>
        LET r == Val(action) IN
        /\ r.ret = 0
        /\ (r.ctx # "SELECTION" \/ ~IsSome(r.playlist)) => cache = r.before
        /\ (r.ctx = "SELECTION" /\ IsSome(r.playlist)) =>
              LET items == Val(r.playlist) IN
              /\ \A i \in Targets(items) :
                    ~is_cached(cache, items[i].artist, items[i].title)
              /\ \A p \in CachePaths :
                    (\A i \in Targets(items) : ItemPath(items[i]) # p)
                        => cache[p] = r.before[p]

C10_Witness ==
    /\ IsSome(action)
    /\ Val(action).ctx = "SELECTION"
    /\ IsSome(Val(action).playlist)
    /\ LET items == Val(Val(action).playlist) IN
       /\ Len(items) = 2
       /\ items[1].selected
       /\ is_cached(Val(action).before, items[1].artist, items[1].title)
       /\ ~is_cached(cache, items[1].artist, items[1].title)
       /\ ~items[2].selected
       /\ is_cached(Val(action).before, items[2].artist, items[2].title)
       /\ is_cached(cache, items[2].artist, items[2].title)

\* C11: get_lyrics_from_script returns text exactly when the template is
\* set, compiles and evaluates, the child was spawned, exited with status 0
\* and wrote non-empty, valid UTF-8 output, and the text is that output; in
\* every other case it returns the empty option. It starts no child when the
\* template is empty, and never more than one.
C11_ScriptResult ==
    IsSome(scriptCall) =>
        LET c == Val(scriptCall)
            e == c.env
        IN  /\ IsSome(c.result) <=>
                  (/\ e.template # <<>> /\ e.compileOk /\ e.evalLen >= 0
                   /\ e.spawnOk /\ e.exit = 0 /\ e.output # <<>> /\ e.valid)
            /\ IsSome(c.result) => c.result = Some(e.output)
            /\ e.template = <<>> => c.spawned = 0
            /\ c.spawned \in {0, 1}

C11_Witness ==
    /\ IsSome(scriptCall)
    /\ Val(scriptCall).env.exit = 0
    /\ Val(scriptCall).spawned = 1
    /\ Val(scriptCall).result = Some(ScriptLyrics)

Count(q, x) == Cardinality({i \in 1..Len(q) : q[i] = x})

\* "Loading..." is published before a provider is called, once, and only
\* after the metadata lookup and the cache load missed for a track that has
\* artist and title
LoadingBeforeProviders ==
    /\ Count(published, Loading) <= 1
    /\ (Range(consulted) \cap {"script", "scrape"} # {}) =>
          /\ published # <<>>
          /\ published[1] = Loading
    /\ Loading \in Range(published) =>
          /\ IsPrefix(<<"metadata", "cache">>, consulted)
          /\ ~IsSome(track.lyrics)
          /\ IsSome(track.artist) /\ IsSome(track.title)
          /\ ~IsSome(cacheAtStart[TrackKey])

\* C12: "Loading..." is published before any provider is called, exactly
\* once, and only after metadata and cache missed with artist and title
\* present; the publishes of a run that has ended are [lyrics], [not found],
\* [Loading, lyrics] or [Loading, not found].
C12_PublishSequences ==
    /\ LoadingBeforeProviders
    /\ pc \in {"done", "escaped"} =>
          \/ Len(published) = 1 /\ published[1] \in RealLyrics \cup {NotFound}
          \/ /\ Len(published) = 2
             /\ published[1] = Loading
             /\ published[2] \in RealLyrics \cup {NotFound}

\* C14: fetch_file_as_chrome returns the empty option on every transport
\* failure: when no stream was returned, and when a read fails while the
\* body of a 2xx response is being streamed.
C14_TransportFailure ==
    \A i \in 1..Len(attempts) :
        LET r == attempts[i].resp
            o == attempts[i].out
        IN  /\ ~r.stream => o.kind = "none"
            /\ (r.stream /\ r.status = 200 /\ r.len <= MAX_FILE_SIZE
                         /\ r.end = "error") => o.kind = "none"

\* the scrape provider has returned text
ScrapeText == ScrapeReturned /\ IsSome(provResult)

\* C18 as stated: the text the scrape provider returns is non-empty and ends
\* with exactly one newline, and a fragment that is empty after cleaning
\* gives the empty option.
C18_ExactlyOneNewline ==
    /\ ScrapeText =>
          LET t == Val(provResult) IN
          /\ t # <<>>
          /\ Last(t) = "\n"
          /\ Len(t) >= 2 => t[Len(t) - 1] # "\n"
    /\ (ScrapeReturned /\ sDoc = DocEmpty) => provResult = None

\* C18, amended: the text the scrape provider returns is non-empty and ends
\* with a newline (the character before it may be a newline too), it holds
\* no markup, and a fragment that is empty after cleaning gives the empty
\* option.
C18_EndsWithNewline ==
    /\ ScrapeText =>
          LET t == Val(provResult) IN
          /\ t # <<>>
          /\ Last(t) = "\n"
          /\ Range(t) \cap (Tags \cup {"&quot;"}) = {}
    /\ (ScrapeReturned /\ sDoc = DocEmpty) => provResult = None

C18_Witness ==
    /\ ScrapeText
    /\ sDoc = DocLyrics
    /\ provResult = Some(<<"a", "\n", "b", "\"", "\n">>)

\* the positions of the bracket characters of a title
BracketPos(t) == {i \in 1..Len(t) : t[i] \in Brackets}

\* the working title the scrape provider started with
FirstTitle == lowercase(Val(track.title))

\* C13 as stated: no two consecutive attempts query the same URL, and after
\* a failed fetch for a title of the form X + "(" + Y + ")" (or with square
\* brackets) the next attempt queries the URL derived from X.
C13_GroupPerAttempt ==
    \A i \in 1..(Len(attempts) - 1) :
        /\ attempts[i].url # attempts[i + 1].url
        /\ (i = 1 /\ HasBracketSuffix(FirstTitle))
              => attempts[i + 1].url = BaseUrl

\* C13, amended: each failed fetch cuts the un-normalized title just before
\* its last bracket character, one character ( ) [ ] per attempt; each
\* attempt queries the URL of its working title; for a title of the form
\* X + "(" + Y + ")" the second attempt repeats the URL of the first and the
\* third queries the URL derived from X.
C13_BracketPerAttempt ==
    /\ \A i \in 1..Len(attempts) :
          attempts[i].url = ApiUrl(sArtist, attempts[i].title)
    /\ \A i \in 1..(Len(attempts) - 1) :
          LET t == attempts[i].title IN
          /\ attempts[i].out.kind = "none"
          /\ BracketPos(t) # {}
          /\ \E k \in BracketPos(t) :
                /\ \A j \in BracketPos(t) : j <= k
                /\ attempts[i + 1].title = SubSeq(t, 1, k - 1)
    /\ (attempts # <<>> /\ HasBracketSuffix(FirstTitle)) =>
          /\ attempts[1].title = FirstTitle
          /\ Len(attempts) >= 2 => attempts[2].url = attempts[1].url
          /\ Len(attempts) >= 3 => attempts[3].url = BaseUrl

C13_Witness ==
    /\ Len(attempts) = 3
    /\ attempts[1].title = <<"s", " ", "(", "r", ")">>
    /\ attempts[2].title = <<"s", " ", "(", "r">>
    /\ attempts[3].title = <<"s", " ">>
    /\ attempts[1].url = attempts[2].url
    /\ attempts[3].url = BaseUrl

\* every fetch of the scrape call so far returned the empty option
AllFailed == \A i \in 1..Len(attempts) : attempts[i].out.kind = "none"

\* C19: the retry loop terminates: every failed fetch strictly shortens the
\* working title, the provider makes at most (number of bracket characters
\* of the title) + 1 fetches, and when every fetch fails it returns the
\* empty option, after exactly one fetch for a title without a bracket.
C19_RetryTerminates ==
    attempts # <<>> =>
        /\ Len(attempts) <= Cardinality(BracketPos(FirstTitle)) + 1
        /\ \A i \in 1..(Len(attempts) - 1) :
              Len(attempts[i + 1].title) < Len(attempts[i].title)
        /\ (ScrapeReturned /\ AllFailed) =>
              /\ provResult = None
              /\ BracketPos(FirstTitle) = {} => Len(attempts) = 1
        /\ (pc = "s_fetch" /\ AllFailed) =>
              Len(attempts) <= Cardinality(BracketPos(FirstTitle))

C19_Witness ==
    /\ ScrapeReturned
    /\ AllFailed
    /\ track.title = Some(<<"T", "[", "x", "]">>)
    /\ Len(attempts) = 3
    /\ provResult = None

\* C15 as stated: a save issued while the cache root does not exist creates
\* every missing directory, writes the text and returns true; a save that
\* cannot open the file changes no cache entry, and the run still ends with
\* the provider's lyrics published last.
C15_SaveCreatesRoot ==
    \A i \in 1..Len(saves) :
        /\ ~saves[i].root =>
              /\ saves[i].ok
              /\ LyricsDirs \subseteq dirs
              /\ cache[TrackKey] = Some(saves[i].text)
        /\ ~saves[i].ok =>
              /\ cache = cacheAtStart
              /\ pc = "done" => Last(published) = saves[i].text

\* the directories a call of ensure_lyrics_path_exists had to create
Missing(e) == LyricsDirs \ e.before

\* C15, amended: save_cached_lyrics creates no directory. The directories
\* are created by ensure_lyrics_path_exists, which the host calls: it
\* creates every missing directory of the cache root, those that exist
\* being left as they are, unless a mkdir fails, and then it stops there.
\* A save issued while the cache root does not exist returns false, creates
\* nothing and changes no cache entry; a save in an existing root that
\* opens the file writes the full text and returns true; after a save that
\* returned false the run still ends with the provider's lyrics published
\* last.
C15_SaveNeedsRoot ==
    /\ IsSome(ensured) =>
          LET e == Val(ensured) IN
          /\ e.before \subseteq dirs
          /\ Missing(e) \cap e.deny = {} => (e.ret = "0" /\ dirs = LyricsDirs)
          /\ Missing(e) \cap e.deny # {} =>
                /\ e.ret = "EACCES"
                /\ ~CanOpen(dirs)
                /\ dirs \cap e.deny \subseteq e.before
    /\ (~CanOpen(dirs) /\ pc # "ensure_ret") => cache = EmptyCache
    /\ \A i \in 1..Len(saves) :
          /\ saves[i].root = CanOpen(dirs)
          /\ ~saves[i].root => ~saves[i].ok
          /\ saves[i].ok => cache[TrackKey] = Some(saves[i].text)
          /\ ~saves[i].ok =>
                /\ cache = cacheAtStart
                /\ pc = "done" =>
                      /\ Last(published) = saves[i].text
                      /\ hit \in Range(providers)

C15_Witness ==
    /\ pc = "done"
    /\ dirs = {}
    /\ Len(saves) = 1
    /\ ~saves[1].root
    /\ ~saves[1].ok
    /\ Last(published) = saves[1].text
    /\ cache = EmptyCache

\* ensure_lyrics_path_exists has created the directories that were missing
C15_EnsureWitness ==
    /\ IsSome(ensured)
    /\ Val(ensured).before = {<<"/", "cache">>}
    /\ Val(ensured).ret = "0"
    /\ dirs = LyricsDirs

\* where one of get_lyrics_from_metadata, download_lyrics_from_azlyrics,
\* update_lyrics and remove_from_cache_action has just returned or was left
\* by an exception
ReturnPoints == {"ids", "provider_ret", "done", "escaped", "action_ret", "idle"}

\* where a network fetch or the child process of the script is in progress
\* or has just ended
IoPoints == {"s_fetch", "s_fetched", "s_extract", "providers"}

BothSaved == \A w \in Writers : wr[w].pc = "returned" /\ wr[w].ok

\* C16: after two concurrent saves to the same cache file have both
\* completed, the file holds exactly the complete text of one of the two
\* writers, never a mixture of the two and never a truncated text.
C16_LastWriterWins ==
    BothSaved => \E w \in Writers : file = Some(wr[w].text)

====
